---- MODULE Spec2Model ----
(***************************************************************************)
(* A model of tess.py: the terminal chess board painter (draw_board_common *)
(* and draw_piece_ascii) and the two interaction loops                     *)
(* (draw_standard_game, draw_puzzle_game).                                 *)
(*                                                                         *)
(* The curses window is modelled by its size and by what addstr/move do    *)
(* with a start position: positioning the cursor outside the window        *)
(* raises curses.error (wmove returns ERR); getstr outside the window      *)
(* returns an empty line without raising.  The terminal size changes only  *)
(* while the program is blocked in getstr/getch, which is where ncurses    *)
(* processes a resize.  The rules engine (python-chess) is external: its   *)
(* board is a piece placement plus the side to move, and its legal moves   *)
(* are drawn from a small universe of moves.                               *)
(***************************************************************************)
EXTENDS Integers, Sequences, FiniteSets, TLC

VARIABLES
    mode,             \* "standard" | "puzzle" | "paint": which entry point runs
    pc,               \* "top" | "getstr" | "getch" | "done" (position in the loop)
    st,               \* loop state: "running","solved","failed","gameover","nofit","crash"
    exc,              \* the exception that ended the loop, or "none"
    board,            \* the chess.Board: [pieces, turn]
    start,            \* the board passed to the loop (never changes)
    puzzle_solution,  \* list of UCI texts (each a sequence of characters)
    solution_index,   \* cursor into puzzle_solution (0-based, as in the code)
    override,         \* [w, h]: the cell_width and cell_height arguments as passed
    cell_width,       \* the local cell_width: None or <<n>>
    cell_height,      \* the local cell_height: None or <<n>>
    term,             \* [h, w]: what stdscr.getmaxyx() returns now
    prompt_y,         \* last value returned by draw_board_common
    move_str,         \* last line read by getstr
    screen,           \* [frame, texts]: what was written since the last clear()
    applied,          \* moves for which board.push returned, in order
    plies,            \* per scripted ply decided: [how, mover, turn], in order
    nlines,           \* lines read (getstr calls that returned)
    nlegal,           \* lines read in free play that parsed and were legal
    nkeys,            \* acknowledgment keypresses consumed (getch calls)
    signalled,        \* a draw_board_common call has returned -1
    nframes,          \* draw_board_common calls made so far
    canvas,           \* paint specification: the set of writes of the last call
    gargs,            \* paint specification: arguments of the call under test
    first             \* paint specification: the screen after the first draw_board_common call

vars == <<mode, pc, st, exc, board, start, puzzle_solution, solution_index, override,
          cell_width, cell_height, term, prompt_y, move_str, screen, applied,
          plies, nlines, nlegal, nkeys, signalled, nframes, canvas, gargs, first>>

\* ------------------------------------------------------------------ bounds
MaxSol == 3       \* longest puzzle solution
MaxLines == 4     \* lines read in one free-play session
HSlack == 3       \* terminal heights go from 8 * MinCell + Margin - 1 to 8 * MinCell + Margin + HSlack
MaxCell == 4      \* paint specification: cell sizes go from 1 to MaxCell
PaintSlack == 2   \* paint specification: terminal sizes within PaintSlack of the required size
MaxOrigin == 1    \* paint specification: a lone glyph is drawn in the cells of rows and columns 0..MaxOrigin
DimSlack == 2     \* paint specification: layout dimensions go DimSlack below and above the two smallest exact fits

\* ------------------------------------------------------- program constants
MinCell == 3      \* max(3, ...) of the derived cell size
Margin == 4       \* the fixed margin of 8*cell + 4
LeftMargin == 3   \* x offset for the rank labels
TopMargin == 1    \* y offset of the first board row

None == <<>>
Some(n) == <<n>>
Val(o) == o[1]

WHITE == TRUE
BLACK == FALSE
NoPiece == ""
NoColor == "none"

Max(a, b) == IF a >= b THEN a ELSE b
Min(a, b) == IF a <= b THEN a ELSE b

\* ------------------------------------------------------------ rules engine
Squares == 0..63

\* chess.square(file_index, rank_index)
Square(f, r) == r * 8 + f

FileChars == <<"a", "b", "c", "d", "e", "f", "g", "h">>
RankChars == <<"1", "2", "3", "4", "5", "6", "7", "8">>
UpperFileChars == <<"A", "B", "C", "D", "E", "F", "G", "H">>

IndexOf(c, chars) == CHOOSE i \in 1..Len(chars) : chars[i] = c

\* chess.Move.from_uci for a four-character text: from-square then to-square
FromUci(uci) ==
    [from_square |-> Square(IndexOf(uci[1], FileChars) - 1, IndexOf(uci[2], RankChars) - 1),
     to_square   |-> Square(IndexOf(uci[3], FileChars) - 1, IndexOf(uci[4], RankChars) - 1)]

WhitePieces == {"P", "N", "B", "R", "Q", "K"}
BlackPieces == {"p", "n", "b", "r", "q", "k"}

\* board.color_at(square): the colour of the piece there, None on an empty square
ColorAt(b, sq) ==
    IF b.pieces[sq] \in WhitePieces THEN "white"
    ELSE IF b.pieces[sq] \in BlackPieces THEN "black"
    ELSE NoColor

\* board.color_at(sq) == chess.WHITE: chess.WHITE is True, a colour is a bool,
\* and None == True is False
ColorIsWhite(b, sq) == ColorAt(b, sq) = "white"

TurnColor(b) == IF b.turn = WHITE THEN "white" ELSE "black"

\* The texts the puzzle solutions are made of, and the moves of the engine.
D1A4 == <<"d", "1", "a", "4">>
D8D7 == <<"d", "8", "d", "7">>
A4E4 == <<"a", "4", "e", "4">>
MoveTexts == {D1A4, D8D7, A4E4}
Moves == {FromUci(t) : t \in MoveTexts}

\* board.legal_moves, over the move universe: a piece of the side to move
\* leaves its square for one not held by its own side
LegalMoves(b) ==
    {m \in Moves : /\ ColorAt(b, m.from_square) = TurnColor(b)
                   /\ ColorAt(b, m.to_square) # TurnColor(b)}

\* board.is_game_over(): the side to move has no legal move
IsGameOver(b) == LegalMoves(b) = {}

\* board.push(move) on a move whose from-square holds a piece
PushPiece(b, m) ==
    [pieces |-> [sq \in Squares |->
                    IF sq = m.from_square THEN NoPiece
                    ELSE IF sq = m.to_square THEN b.pieces[m.from_square]
                    ELSE b.pieces[sq]],
     turn |-> ~b.turn]

\* board.push(move): the caller guarantees a pseudo-legal move.  On an empty
\* from-square the engine either fails its assertion or goes on with no piece
\* (the to-square is emptied, the turn flips): both outcomes are kept.
PushOutcomes(b, m) ==
    IF b.pieces[m.from_square] # NoPiece
    THEN {[exc |-> "none", board |-> PushPiece(b, m)]}
    ELSE {[exc |-> "AssertionError", board |-> b],
          [exc |-> "none", board |-> PushPiece(b, m)]}

\* ---------------------------------------------------------- initial boards
StartPieces ==
    [sq \in Squares |->
        CASE sq = Square(3, 0) -> "Q"
          [] sq = Square(4, 0) -> "K"
          [] sq = Square(2, 0) -> "B"
          [] sq = Square(0, 1) -> "P"
          [] sq = Square(3, 7) -> "q"
          [] sq = Square(4, 7) -> "k"
          [] sq = Square(1, 7) -> "n"
          [] sq = Square(7, 7) -> "r"
          [] OTHER -> NoPiece]

\* the same position without the black queen: Black has no move
BarePieces == [StartPieces EXCEPT ![Square(3, 7)] = NoPiece]

\* the boards a puzzle starts from, and those a free-play game starts from
\* (a loaded game may already be over)
PuzzleBoards == {[pieces |-> StartPieces, turn |-> t] : t \in BOOLEAN}
InitBoards == PuzzleBoards \cup {[pieces |-> BarePieces, turn |-> BLACK]}

\* ------------------------------------------------------------ the window
TermHeights == ((8 * MinCell + Margin) - 1)..((8 * MinCell + Margin) + HSlack)
                  \cup {8 * (MinCell + 1) + Margin}
\* widths: the narrowest that fits the smallest cells, and one cell size wider
TermWidths == {8 * MinCell + Margin, 8 * (MinCell + 1) + Margin}
Terms == {[h |-> h, w |-> w] : h \in TermHeights, w \in TermWidths}

\* stdscr.addstr(y, x, ...) and stdscr.move(y, x) position the cursor first:
\* outside the window they raise curses.error
InWindow(t, y, x) == 0 <= y /\ y < t.h /\ 0 <= x /\ x < t.w

Text(y, x, msg, arg) == [y |-> y, x |-> x, msg |-> msg, arg |-> arg]

BlankScreen == [frame |-> None, texts |-> <<>>]

\* ---------------------------------------------------------- glyph renderer
Chars(n, c) == [i \in 1..n |-> c]

\* ASCII_PIECES: each shape is a list of rows, each row a list of characters
ShapeOf(letter) ==
    CASE letter = "P" -> <<<<" ", "^", " ">>, <<"(", "P", ")">>, <<"/", "_", "\\">>>>
      [] letter = "N" -> <<<<" ", "_", "_">>, <<"/", " ", "N">>, <<"\\", "_", "/">>>>
      [] letter = "B" -> <<<<" ", " ", "^">>, <<" ", "/", "B", "\\">>, <<" ", "\\", "_", "/">>>>
      [] letter = "R" -> <<<<"[", "R", "]">>, <<"[", "R", "]">>, <<"[", "R", "]">>>>
      [] letter = "Q" -> <<<<" ", "Q", " ">>, <<"(", " ", ")">>, <<" ", "\\", "|">>>>
      [] letter = "K" -> <<<<" ", "K", " ">>, <<"(", ".", " ", ")">>, <<" ", "|", " ">>>>
      [] letter = "p" -> <<<<" ", "^", " ">>, <<"(", "p", ")">>, <<"/", "_", "\\">>>>
      [] letter = "n" -> <<<<" ", "_", "_">>, <<"/", " ", "n">>, <<"\\", "_", "/">>>>
      [] letter = "b" -> <<<<" ", " ", "^">>, <<" ", "/", "b", "\\">>, <<" ", "\\", "_", "/">>>>
      [] letter = "r" -> <<<<"[", "r", "]">>, <<"[", "r", "]">>, <<"[", "r", "]">>>>
      [] letter = "q" -> <<<<" ", "q", " ">>, <<"(", " ", ")">>, <<" ", "\\", "|">>>>
      [] letter = "k" -> <<<<" ", "k", " ">>, <<"(", ".", " ", ")">>, <<" ", "|", " ">>>>
      [] OTHER -> <<>>

ASCII_PIECES == [letter \in WhitePieces \cup BlackPieces |-> ShapeOf(letter)]

RECURSIVE MaxLen(_)
MaxLen(rows) ==
    IF rows = <<>> THEN 0 ELSE Max(Len(Head(rows)), MaxLen(Tail(rows)))

\* row_text[:n], Python's slice
Clip(row, n) ==
    IF n >= 0 THEN SubSeq(row, 1, Min(n, Len(row)))
    ELSE SubSeq(row, 1, Max(0, Len(row) + n))

\* (cell - shape) // 2, Python's floor division
CenterOffset(cell, shape) == (cell - shape) \div 2

Write(kind, y, x, text, bg) == [kind |-> kind, y |-> y, x |-> x, text |-> text, bg |-> bg]

\* draw_piece_ascii: the addstr calls it makes, one per row it keeps
DrawPieceAscii(piece_char, x, y, cw, ch, bg_color) ==
    IF piece_char \notin DOMAIN ASCII_PIECES THEN {}
    ELSE LET shape == ASCII_PIECES[piece_char]
             shape_height == Len(shape)
             shape_width == MaxLen(shape)
             offset_y == CenterOffset(ch, shape_height)
             offset_x == CenterOffset(cw, shape_width)
         IN {Write("piece", y + offset_y + (i - 1), x + offset_x, Clip(shape[i], cw), bg_color) :
                i \in {j \in 1..shape_height : 0 <= offset_y + (j - 1) /\ offset_y + (j - 1) < ch}}

\* ------------------------------------------------------------ board painter
RequiredWidth(cw) == 8 * cw + Margin
RequiredHeight(ch) == 8 * ch + Margin

\* a variant of DoesNotFit that also rejects the exact fit
DoesNotFitOffByOne(cw, ch, t) == t.h <= RequiredHeight(ch) \/ t.w <= RequiredWidth(cw)

\* line 110: height < required_height or width < required_width
DoesNotFit(cw, ch, t) == t.h < RequiredHeight(ch) \/ t.w < RequiredWidth(cw)

CellX(col, cw) == col * cw + LeftMargin
CellY(row, ch) == row * ch + TopMargin

\* curses.color_pair(2) on even (row + col), color_pair(1) on odd
BgColor(row, col) == IF (row + col) % 2 = 0 THEN 2 ELSE 1

\* a variant of PieceAtCell that puts rank 1 in the top row
PieceAtCellUnflipped(pieces, row, col) == pieces[Square(col, row)]

\* board.piece_at(chess.square(col, 7 - row))
PieceAtCell(pieces, row, col) == pieces[Square(col, 7 - row)]

CellWrites(pieces, row, col, cw, ch) ==
    {Write("cell", CellY(row, ch) + h_offset, CellX(col, cw), Chars(cw, " "), BgColor(row, col)) :
        h_offset \in 0..(ch - 1)}
    \cup (IF PieceAtCell(pieces, row, col) # NoPiece
          THEN DrawPieceAscii(PieceAtCell(pieces, row, col), CellX(col, cw), CellY(row, ch),
                              cw, ch, BgColor(row, col))
          ELSE {})

LabelWrites(cw, ch) ==
    {Write("rank", row * ch + 1, 1, <<RankChars[8 - row]>>, 0) : row \in 0..7}
    \cup {Write("file", 8 * ch + 2, col * cw + LeftMargin, <<UpperFileChars[col + 1]>>, 0) : col \in 0..7}

TooSmallWrite == Write("msg", 0, 0, <<"Window too small to draw the chessboard.">>, 0)

\* every addstr of one draw_board_common call
BoardWrites(pieces, cw, ch, t) ==
    IF DoesNotFit(cw, ch, t) THEN {TooSmallWrite}
    ELSE (UNION {CellWrites(pieces, row, col, cw, ch) : row \in 0..7, col \in 0..7})
            \cup LabelWrites(cw, ch)

\* a variant of ClearScreen that keeps what is on the screen
KeepScreen(scr) == scr

\* stdscr.clear(), line 104: nothing written before stays on the screen
ClearScreen(scr) == {}

\* the screen (a set of writes) after one draw_board_common call
Paint(scr, b, cw, ch, t) == ClearScreen(scr) \cup BoardWrites(b.pieces, cw, ch, t)

\* draw_board_common as the loops see it: the value returned and the screen
\* after clear() and the writes
DrawBoardCommon(b, cw, ch, t) ==
    IF DoesNotFit(cw, ch, t)
    THEN [ret |-> -1,
          screen |-> [frame |-> None, texts |-> <<Text(0, 0, "toosmall", <<>>)>>]]
    ELSE [ret |-> RequiredHeight(ch),
          screen |-> [frame |-> Some([pieces |-> b.pieces, cw |-> cw, ch |-> ch]),
                      texts |-> <<>>]]

\* ------------------------------------------------------------ input lines
RECURSIVE LStrip(_)
LStrip(s) == IF s # <<>> /\ Head(s) = " " THEN LStrip(Tail(s)) ELSE s

RECURSIVE RStrip(_)
RStrip(s) == IF s # <<>> /\ s[Len(s)] = " " THEN RStrip(SubSeq(s, 1, Len(s) - 1)) ELSE s

\* str.strip()
Strip(s) == RStrip(LStrip(s))

LowerChar(c) ==
    IF \E i \in 1..8 : UpperFileChars[i] = c THEN FileChars[IndexOf(c, UpperFileChars)] ELSE c
UpperChar(c) ==
    IF \E i \in 1..8 : FileChars[i] = c THEN UpperFileChars[IndexOf(c, FileChars)] ELSE c

\* str.lower()
Lower(s) == [i \in 1..Len(s) |-> LowerChar(s[i])]
Upper(s) == [i \in 1..Len(s) |-> UpperChar(s[i])]

\* what the user may type at the puzzle prompt
PuzzleLines ==
    MoveTexts \cup {Upper(D1A4), <<" ">> \o D8D7 \o <<" ">>, <<>>}

\* what the user may type in free play: a SAN text naming a move, or garbage
FreeLines == {<<"san", m>> : m \in Moves} \cup {<<"bogus">>}

\* board.parse_san(line): a move, or ValueError.  For a text naming a move
\* that is not legal the engine may return the move or raise.
ParseSan(b, line) ==
    IF line[1] = "bogus" THEN {<<"ValueError">>}
    ELSE IF line[2] \in LegalMoves(b) THEN {<<"move", line[2]>>}
    ELSE {<<"move", line[2]>>, <<"ValueError">>}

Solutions == UNION {[1..n -> MoveTexts] : n \in 0..MaxSol}
Overrides == {None, Some(MinCell)}

\* ------------------------------------------------------------------- loops
paintVars == <<canvas, gargs, first>>

\* a variant of Derive that raises an override to the minimum
DeriveWithMinimum(local, dim) ==
    IF local = None THEN Some(Max(MinCell, (dim - Margin) \div 8))
    ELSE Some(Max(MinCell, Val(local)))

\* max(3, (dimension - 4) // 8) when the local is None, else the local
Derive(local, dim) ==
    IF local = None THEN Some(Max(MinCell, (dim - Margin) \div 8)) ELSE local

AddText(scr, text) == [scr EXCEPT !.texts = Append(@, text)]

\* The prompt (addstr at prompt_y) and the cursor move to prompt_y + 1 that
\* precede getstr: "ok", or the call that raised.
PromptPhase(t, py) ==
    IF ~InWindow(t, py, 0) THEN "addstr"
    ELSE IF ~InWindow(t, py + 1, 0) THEN "move"
    ELSE "ok"

ScreenAfterPrompt(scr, t, py, arg) ==
    IF InWindow(t, py, 0) THEN AddText(scr, Text(py, 0, "prompt", arg)) ELSE scr

ColorName(b) == IF b.turn THEN <<"White">> ELSE <<"Black">>

Init ==
    /\ mode \in {"standard", "puzzle"}
    /\ pc = "top"
    /\ st = "running"
    /\ exc = "none"
    /\ board \in (IF mode = "puzzle" THEN PuzzleBoards ELSE InitBoards)
    /\ start = board
    /\ puzzle_solution \in (IF mode = "puzzle" THEN Solutions ELSE {<<>>})
    /\ solution_index = 0
    /\ override \in [w : Overrides, h : Overrides]
    /\ cell_width = override.w
    /\ cell_height = override.h
    /\ term \in Terms
    /\ prompt_y = 0
    /\ move_str = <<>>
    /\ screen = BlankScreen
    /\ applied = <<>>
    /\ plies = <<>>
    /\ nlines = 0
    /\ nlegal = 0
    /\ nkeys = 0
    /\ signalled = FALSE
    /\ nframes = 0
    /\ canvas = {}
    /\ gargs = None
    /\ first = {}

\* draw_standard_game, lines 156-179: one iteration up to the blocking getstr
FreeIterate ==
    /\ mode = "standard" /\ pc = "top" /\ ~IsGameOver(board)
    /\ LET cw == Derive(cell_width, term.w)
           ch == Derive(cell_height, term.h)
           d == DrawBoardCommon(board, Val(cw), Val(ch), term)
           ph == PromptPhase(term, d.ret)
       IN /\ cell_width' = cw
          /\ cell_height' = ch
          /\ prompt_y' = d.ret
          /\ nframes' = nframes + 1
          /\ signalled' = (signalled \/ d.ret < 0)
          /\ IF d.ret < 0
             THEN /\ screen' = d.screen
                  /\ pc' = "done" /\ st' = "nofit" /\ exc' = exc
             ELSE /\ screen' = ScreenAfterPrompt(d.screen, term, d.ret, ColorName(board))
                  /\ IF ph = "ok"
                     THEN pc' = "getstr" /\ st' = st /\ exc' = exc
                     ELSE pc' = "done" /\ st' = "crash" /\ exc' = "curses.error"
    /\ UNCHANGED <<mode, override, board, start, puzzle_solution, solution_index, term, move_str,
                   applied, plies, nlines, nlegal, nkeys>>
    /\ UNCHANGED paintVars

\* a variant of Accepts that skips the legality test of line 184
AcceptsUnchecked(b, r) == r[1] = "move"

\* lines 183-184: parse_san returned a move and it is in board.legal_moves
Accepts(b, r) == r[1] = "move" /\ r[2] \in LegalMoves(b)

\* draw_standard_game, lines 178-193: getstr returns a line; parse, apply or report
FreeGetstr ==
    /\ mode = "standard" /\ pc = "getstr" /\ nlines < MaxLines
    /\ \E line \in FreeLines, t \in Terms :
         \E r \in ParseSan(board, line) :
            /\ move_str' = line
            /\ term' = t
            /\ nlines' = nlines + 1
            /\ nlegal' = IF line[1] = "san" /\ line[2] \in LegalMoves(board)
                         THEN nlegal + 1 ELSE nlegal
            /\ IF Accepts(board, r)
               THEN /\ board' = PushPiece(board, r[2])
                    /\ applied' = Append(applied, r[2])
                    /\ screen' = screen
                    /\ pc' = "top" /\ st' = st /\ exc' = exc
               ELSE /\ board' = board
                    /\ applied' = applied
                    /\ IF InWindow(t, prompt_y + 2, 0)
                       THEN /\ screen' = AddText(screen,
                                           Text(prompt_y + 2, 0,
                                                IF r[1] = "move" THEN "illegal" ELSE "invalid", <<>>))
                            /\ pc' = "getch" /\ st' = st /\ exc' = exc
                       ELSE /\ screen' = screen
                            /\ pc' = "done" /\ st' = "crash" /\ exc' = "curses.error"
    /\ UNCHANGED <<mode, override, start, puzzle_solution, solution_index, cell_width, cell_height,
                   prompt_y, plies, nkeys, signalled, nframes>>
    /\ UNCHANGED paintVars

\* draw_standard_game, lines 195-197: the loop condition failed
FreeGameOver ==
    /\ mode = "standard" /\ pc = "top" /\ IsGameOver(board)
    /\ IF InWindow(term, 0, 0)
       THEN /\ screen' = AddText(screen, Text(0, 0, "gameover", <<>>))
            /\ pc' = "getch" /\ st' = "gameover" /\ exc' = exc
       ELSE /\ screen' = screen
            /\ pc' = "done" /\ st' = "crash" /\ exc' = "curses.error"
    /\ UNCHANGED <<mode, override, board, start, puzzle_solution, solution_index, cell_width,
                   cell_height, term, prompt_y, move_str, applied, plies, nlines, nlegal,
                   nkeys, signalled, nframes>>
    /\ UNCHANGED paintVars

\* stdscr.getch() returns: lines 189, 193, 198, 254, 265
Getch ==
    /\ pc = "getch"
    /\ nkeys' = nkeys + 1
    /\ IF st \in {"gameover", "solved", "failed"}
       THEN pc' = "done" /\ term' = term    \* the size is not read again
       ELSE pc' = "top" /\ \E t \in Terms : term' = t
    /\ UNCHANGED <<mode, override, st, exc, board, start, puzzle_solution, solution_index, cell_width,
                   cell_height, prompt_y, move_str, screen, applied, plies, nlines, nlegal,
                   signalled, nframes>>
    /\ UNCHANGED paintVars

Ply(how, b, m, i) ==
    [how |-> how, mover |-> ColorAt(b, m.from_square), turn |-> TurnColor(b), idx |-> i]

\* a variant of Advance that skips a scripted ply
AdvanceTwice(i) == i + 2

\* lines 248 and 259: solution_index += 1
Advance(i) == i + 1

\* line 230: board.turn == (board.color_at(next_move.from_square) == chess.WHITE)
AsksUser(b, m) == b.turn = ColorIsWhite(b, m.from_square)

\* draw_puzzle_game, lines 214-242 and 256-259: one iteration, up to the
\* blocking getstr (user's ply) or through the auto-played push
PuzzleIterate ==
    /\ mode = "puzzle" /\ pc = "top" /\ solution_index < Len(puzzle_solution)
    /\ LET cw == Derive(cell_width, term.w)
           ch == Derive(cell_height, term.h)
           d == DrawBoardCommon(board, Val(cw), Val(ch), term)
           next_move_uci == puzzle_solution[solution_index + 1]
           next_move == FromUci(next_move_uci)
           ph == PromptPhase(term, d.ret)
       IN /\ cell_width' = cw
          /\ cell_height' = ch
          /\ prompt_y' = d.ret
          /\ nframes' = nframes + 1
          /\ signalled' = (signalled \/ d.ret < 0)
          /\ IF d.ret < 0
             THEN /\ screen' = d.screen
                  /\ pc' = "done" /\ st' = "nofit" /\ exc' = exc
                  /\ UNCHANGED <<board, applied, solution_index, plies>>
             ELSE IF AsksUser(board, next_move)
             THEN /\ screen' = ScreenAfterPrompt(d.screen, term, d.ret, ColorName(board))
                  /\ plies' = Append(plies, Ply("prompt", board, next_move, solution_index))
                  /\ IF ph = "ok"
                     THEN pc' = "getstr" /\ st' = st /\ exc' = exc
                     ELSE pc' = "done" /\ st' = "crash" /\ exc' = "curses.error"
                  /\ UNCHANGED <<board, applied, solution_index>>
             ELSE /\ screen' = d.screen
                  /\ plies' = Append(plies, Ply("auto", board, next_move, solution_index))
                  /\ \E o \in PushOutcomes(board, next_move) :
                        IF o.exc = "none"
                        THEN /\ board' = o.board
                             /\ applied' = Append(applied, next_move)
                             /\ solution_index' = Advance(solution_index)
                             /\ pc' = "top" /\ st' = st /\ exc' = exc
                        ELSE /\ pc' = "done" /\ st' = "crash" /\ exc' = o.exc
                             /\ UNCHANGED <<board, applied, solution_index>>
    /\ UNCHANGED <<mode, override, start, puzzle_solution, term, move_str, nlines, nlegal, nkeys>>
    /\ UNCHANGED paintVars

\* a variant of Matches that compares the raw line
MatchesExact(line, uci) == line = uci

\* line 245: move_str.strip().lower() == next_move_uci
Matches(line, uci) == Lower(Strip(line)) = uci

\* draw_puzzle_game, lines 241-255: getstr returns a line; compare, apply or fail
PuzzleGetstr ==
    /\ mode = "puzzle" /\ pc = "getstr"
    /\ \E line \in PuzzleLines, t \in Terms :
         LET next_move_uci == puzzle_solution[solution_index + 1]
             next_move == FromUci(next_move_uci)
         IN /\ move_str' = line
            /\ term' = t
            /\ nlines' = nlines + 1
            /\ IF Matches(line, next_move_uci)
               THEN /\ screen' = screen
                    /\ \E o \in PushOutcomes(board, next_move) :
                          IF o.exc = "none"
                          THEN /\ board' = o.board
                               /\ applied' = Append(applied, next_move)
                               /\ solution_index' = Advance(solution_index)
                               /\ pc' = "top" /\ st' = st /\ exc' = exc
                          ELSE /\ pc' = "done" /\ st' = "crash" /\ exc' = o.exc
                               /\ UNCHANGED <<board, applied, solution_index>>
               ELSE /\ UNCHANGED <<board, applied, solution_index>>
                    /\ IF InWindow(t, prompt_y + 2, 0)
                       THEN /\ screen' = AddText(screen,
                                           Text(prompt_y + 2, 0, "incorrect", next_move_uci))
                            /\ pc' = "getch" /\ st' = "failed" /\ exc' = exc
                       ELSE /\ screen' = screen
                            /\ pc' = "done" /\ st' = "crash" /\ exc' = "curses.error"
    /\ UNCHANGED <<mode, override, start, puzzle_solution, cell_width, cell_height, prompt_y, plies,
                   nlegal, nkeys, signalled, nframes>>
    /\ UNCHANGED paintVars

\* draw_puzzle_game, lines 261-264: the loop condition failed
PuzzleSolved ==
    /\ mode = "puzzle" /\ pc = "top" /\ solution_index >= Len(puzzle_solution)
    /\ IF cell_width = None \/ cell_height = None
       THEN \* 8 * None raises TypeError inside draw_board_common, after clear()
            /\ screen' = BlankScreen
            /\ pc' = "done" /\ st' = "crash" /\ exc' = "TypeError"
            /\ UNCHANGED <<signalled, nframes>>
       ELSE LET d == DrawBoardCommon(board, Val(cell_width), Val(cell_height), term)
            IN /\ signalled' = (signalled \/ d.ret < 0)
               /\ nframes' = nframes + 1
               /\ IF InWindow(term, 0, 0)
                  THEN /\ screen' = AddText(d.screen, Text(0, 0, "solved", <<>>))
                       /\ pc' = "getch" /\ st' = "solved" /\ exc' = exc
                  ELSE /\ screen' = d.screen
                       /\ pc' = "done" /\ st' = "crash" /\ exc' = "curses.error"
    /\ UNCHANGED <<mode, override, board, start, puzzle_solution, solution_index, cell_width,
                   cell_height, term, prompt_y, move_str, applied, plies, nlines, nlegal,
                   nkeys>>
    /\ UNCHANGED paintVars

Next ==
    \/ FreeIterate
    \/ FreeGetstr
    \/ FreeGameOver
    \/ PuzzleIterate
    \/ PuzzleGetstr
    \/ PuzzleSolved
    \/ Getch

Spec == Init /\ [][Next]_vars

\* ------------------------------------------------- the painter on its own
\* One call of draw_board_common or of draw_piece_ascii on arguments drawn
\* from bounded sets; canvas holds every addstr of the call, prompt_y the
\* value draw_board_common returned.
CellSizes == 1..MaxCell
PieceChars == WhitePieces \cup BlackPieces \cup {"x"}

InitPaint ==
    /\ mode = "paint"
    /\ pc = "top"
    /\ st = "running"
    /\ exc = "none"
    /\ board = [pieces |-> StartPieces, turn |-> WHITE]
    /\ start = board
    /\ puzzle_solution = <<>>
    /\ solution_index = 0
    /\ override = [w |-> None, h |-> None]
    /\ cell_width = None
    /\ cell_height = None
    /\ term = [h |-> RequiredHeight(MinCell), w |-> RequiredWidth(MinCell)]
    /\ prompt_y = 0
    /\ move_str = <<>>
    /\ screen = BlankScreen
    /\ applied = <<>>
    /\ plies = <<>>
    /\ nlines = 0
    /\ nlegal = 0
    /\ nkeys = 0
    /\ signalled = FALSE
    /\ nframes = 0
    /\ canvas = {}
    /\ gargs = None
    /\ first = {}

loopVars == <<mode, st, exc, start, override, puzzle_solution, solution_index, move_str, applied,
              plies, nlines, nlegal, nkeys>>

\* draw_board_common(stdscr, board, cell_width, cell_height) on a window of size t
PaintBoard ==
    /\ mode = "paint" /\ pc = "top"
    /\ \E b \in InitBoards, cw \in CellSizes, ch \in CellSizes,
          dh \in (0 - PaintSlack)..PaintSlack, dw \in (0 - PaintSlack)..PaintSlack :
         LET t == [h |-> RequiredHeight(ch) + dh, w |-> RequiredWidth(cw) + dw]
             d == DrawBoardCommon(b, cw, ch, t)
         IN /\ gargs' = <<"board", cw, ch>>
            /\ board' = b
            /\ term' = t
            /\ cell_width' = Some(cw)
            /\ cell_height' = Some(ch)
            /\ canvas' = Paint(canvas, b, cw, ch, t)
            /\ first' = canvas'
            /\ screen' = d.screen
            /\ prompt_y' = d.ret
            /\ signalled' = (d.ret < 0)
            /\ nframes' = 1
            /\ pc' = "board"
    /\ UNCHANGED loopVars

\* draw_piece_ascii(stdscr, piece_char, x, y, cell_width, cell_height, bg_color)
PaintPiece ==
    /\ mode = "paint" /\ pc = "top"
    /\ \E c \in PieceChars, col \in 0..MaxOrigin, row \in 0..MaxOrigin,
          cw \in CellSizes, ch \in CellSizes :
       LET x == CellX(col, cw)
           y == CellY(row, ch)
       IN
         /\ gargs' = <<"piece", cw, ch, c, x, y>>
         /\ canvas' = DrawPieceAscii(c, x, y, cw, ch, 1)
         /\ first' = first
         /\ pc' = "piece"
    /\ UNCHANGED <<board, term, cell_width, cell_height, screen, prompt_y, signalled, nframes>>
    /\ UNCHANGED loopVars

\* what a loop puts on the screen between two renders of the same board:
\* the frame of another position (another draw_board_common call), or a
\* message of its own written over the frame at the top left (lines 196, 263)
PaintOver ==
    /\ mode = "paint" /\ pc = "board"
    /\ \/ \E b2 \in InitBoards \ {board} :
            /\ canvas' = Paint(canvas, b2, gargs[2], gargs[3], term)
            /\ gargs' = Append(gargs, "frame")
       \/ /\ canvas' = canvas \cup {Write("msg", 0, 0, <<"Press any key to exit.">>, 0)}
          /\ gargs' = Append(gargs, "text")
    /\ pc' = "over"
    /\ UNCHANGED <<board, term, cell_width, cell_height, screen, prompt_y, signalled, nframes,
                   first>>
    /\ UNCHANGED loopVars

\* draw_board_common called again with the board, the cell sizes and the
\* window of the first call
PaintAgain ==
    /\ mode = "paint" /\ pc = "over"
    /\ canvas' = Paint(canvas, board, gargs[2], gargs[3], term)
    /\ nframes' = nframes + 1
    /\ pc' = "again"
    /\ UNCHANGED <<board, term, cell_width, cell_height, screen, prompt_y, signalled, gargs,
                   first>>
    /\ UNCHANGED loopVars

\* the cell_width / cell_height arguments a caller may pass, and the
\* terminal dimensions of the first frame
LayoutOverrides == {None} \cup {Some(n) : n \in CellSizes}
Dims == {Margin - 1}
           \cup ((RequiredHeight(MinCell) - DimSlack)..(RequiredHeight(MinCell + 1) + DimSlack))

\* the first iteration of a loop, lines 157-164 and 215-221: getmaxyx, the
\* two cell sizes, and the fit check of the draw_board_common call
PaintLayout ==
    /\ mode = "paint" /\ pc = "top"
    /\ \E ow \in LayoutOverrides, oh \in LayoutOverrides, h \in Dims, w \in Dims :
         LET t == [h |-> h, w |-> w]
             cw == Derive(ow, w)
             ch == Derive(oh, h)
             d == DrawBoardCommon(board, Val(cw), Val(ch), t)
         IN /\ override' = [w |-> ow, h |-> oh]
            /\ term' = t
            /\ cell_width' = cw
            /\ cell_height' = ch
            /\ prompt_y' = d.ret
            /\ screen' = d.screen
            /\ signalled' = (d.ret < 0)
            /\ nframes' = 1
            /\ gargs' = <<"layout">>
            /\ pc' = "layout"
    /\ UNCHANGED <<mode, st, exc, board, start, puzzle_solution, solution_index, move_str,
                   applied, plies, nlines, nlegal, nkeys, canvas, first>>

NextPaint ==
    \/ PaintBoard
    \/ PaintPiece
    \/ PaintOver
    \/ PaintAgain
    \/ PaintLayout

SpecPaint == InitPaint /\ [][NextPaint]_vars

\* ------------------------------------------------------------------ claims
Last(seq) == seq[Len(seq)]

InPuzzle == mode = "puzzle"
InFreePlay == mode = "standard"

\* every ply of sol, played in order from b, is moved by the side then to move
RECURSIVE EachPlyBySideToMove(_, _)
EachPlyBySideToMove(b, sol) ==
    IF sol = <<>> THEN TRUE
    ELSE /\ ColorAt(b, FromUci(Head(sol)).from_square) = TurnColor(b)
         /\ EachPlyBySideToMove(PushPiece(b, FromUci(Head(sol))), Tail(sol))

SolutionMoves == [i \in 1..Len(puzzle_solution) |-> FromUci(puzzle_solution[i])]

\* C1: for a three-ply solution whose plies alternate sides (each moved by
\* the side to move), the user is asked for a line only at plies 1 and 3
\* (cursor 0 and 2), ply 2 is applied with no line read, and the session
\* that ends in Solved has read exactly two lines and applied the three
\* scripted moves in order.
C1_OpponentPlyAutoPlayed ==
    (InPuzzle /\ exc = "none" /\ Len(puzzle_solution) = 3
        /\ EachPlyBySideToMove(start, puzzle_solution))
        => /\ \A i \in 1..Len(plies) :
                (plies[i].how = "prompt") <=> (plies[i].idx \in {0, 2})
           /\ st = "solved" => (nlines = 2 /\ applied = SolutionMoves)

\* C2: a line that does not match the scripted move of the current ply sends
\* the loop to Failed with no move applied (board and cursor unchanged) and
\* the expected move shown, waiting for the acknowledgment keypress; from
\* Failed the loop reads no further line, consumes exactly one keypress,
\* returns, and never becomes Solved.  (Stated for reads during which the
\* terminal is not resized.)
C2_MismatchFails ==
    /\ [][(InPuzzle /\ pc = "getstr" /\ nlines' = nlines + 1 /\ term' = term
             /\ ~(Lower(Strip(move_str')) = puzzle_solution[solution_index + 1]))
          => /\ st' = "failed" /\ pc' = "getch"
             /\ board' = board /\ solution_index' = solution_index /\ applied' = applied
             /\ screen'.texts # <<>>
             /\ Last(screen'.texts).msg = "incorrect"
             /\ Last(screen'.texts).arg = puzzle_solution[solution_index + 1]]_vars
    /\ [][(InPuzzle /\ st = "failed")
          => /\ st' = "failed" /\ nlines' = nlines /\ applied' = applied
             /\ pc = "getch" /\ pc' = "done" /\ nkeys' = nkeys + 1]_vars

\* C3: for every scripted ply the loop decided, on every board (an empty
\* from-square included), the user was prompted if and only if the colour of
\* the piece on the scripted move's from-square was the side to move;
\* otherwise the move was applied without input.
C3_PromptIffMoverToMove ==
    (InPuzzle /\ exc = "none")
        => \A i \in 1..Len(plies) :
              (plies[i].how = "prompt") <=> (plies[i].mover = plies[i].turn)

\* C4: in free play every line read either parses to a legal move, which is
\* applied, or leaves the board unchanged, writes a feedback message and
\* waits for one acknowledgment keypress, after which the loop goes on to
\* the next prompt; no error ends the loop.  (Stated for reads during which
\* the terminal is not resized.)
C4_FreePlayLineHandled ==
    /\ [][(InFreePlay /\ pc = "getstr" /\ nlines' = nlines + 1 /\ term' = term)
          => IF move_str'[1] = "san" /\ move_str'[2] \in LegalMoves(board)
             THEN /\ board' = PushPiece(board, move_str'[2])
                  /\ pc' = "top"
             ELSE /\ board' = board
                  /\ screen'.texts # <<>>
                  /\ Last(screen'.texts).msg \in {"illegal", "invalid"}
                  /\ pc' = "getch"
                  /\ exc' = "none"]_vars
    /\ [][(InFreePlay /\ pc = "getch" /\ st = "running")
          => (nkeys' = nkeys + 1 /\ pc' = "top" /\ board' = board)]_vars

\* C5: when the free-play loop has ended by game over, the moves it applied
\* are as many as the lines read that parsed and were legal; a move line is
\* never awaited on a board that is game-over, and the game-over exit is
\* taken only on a board that is game-over.
C5_GameOverCount ==
    InFreePlay
        => /\ st = "gameover" => (Len(applied) = nlegal /\ LegalMoves(board) = {})
           /\ pc = "getstr" => LegalMoves(board) # {}
           /\ Len(applied) <= nlines

C5_Witness ==
    InFreePlay /\ st = "gameover" /\ pc = "done" /\ nlegal = 3 /\ nlines = 4 /\ nkeys = 2

\* C6: in the puzzle loop the cursor stays within 0..len(solution), equals
\* the number of moves applied, the applied moves are the first
\* solution_index scripted moves in order, no ply is decided and no line is
\* awaited once the cursor has reached the length, and Solved is entered
\* only with the cursor at the length.
C6_CursorInvariant ==
    InPuzzle
        => /\ 0 <= solution_index /\ solution_index <= Len(puzzle_solution)
           /\ solution_index = Len(applied)
           /\ applied = SubSeq(SolutionMoves, 1, solution_index)
           /\ \A i \in 1..Len(plies) : plies[i].idx < Len(puzzle_solution)
           /\ pc = "getstr" => solution_index < Len(puzzle_solution)
           /\ st = "solved" => solution_index = Len(puzzle_solution)

C6_Witness ==
    /\ InPuzzle /\ st = "solved" /\ pc = "done" /\ solution_index = 3
    /\ \E i, j \in 1..Len(plies) : plies[i].how = "auto" /\ plies[j].how = "prompt"

\* C7: once a draw_board_common call of a loop has returned -1, the loop has
\* returned (it is not blocked in getstr or getch) and the too-small message
\* is the only and last thing on the screen.
C7_NoFitReturns ==
    signalled
        => /\ pc = "done" /\ st = "nofit"
           /\ screen.texts = <<Text(0, 0, "toosmall", <<>>)>>
           /\ screen.frame = None

\* C8: draw_board_common returns -1 exactly when h < 8*ch + 4 or
\* w < 8*cw + 4; when it does, its only write is the too-small message;
\* when it does not, every cell row and every label it writes starts and
\* ends inside the window (row < h, last column < w).
C8_FitSignal ==
    (mode = "paint" /\ pc = "board")
        => LET cw == gargs[2]
               ch == gargs[3]
           IN /\ (prompt_y = -1) <=> (term.h < 8 * ch + 4 \/ term.w < 8 * cw + 4)
              /\ prompt_y = -1 =>
                    \A wr \in canvas : wr.kind = "msg" /\ wr.y = 0 /\ wr.x = 0
              /\ prompt_y # -1 =>
                    /\ prompt_y = 8 * ch + 4
                    /\ Cardinality({wr \in canvas : wr.kind = "cell"}) = 64 * ch
                    /\ \A wr \in canvas :
                          /\ wr.kind \in {"cell", "piece", "rank", "file"}
                          /\ wr.kind \in {"cell", "rank", "file"} =>
                                /\ 0 <= wr.y /\ wr.y < term.h
                                /\ 0 <= wr.x /\ wr.x + Len(wr.text) <= term.w

C8_Witness ==
    /\ mode = "paint" /\ pc = "board" /\ prompt_y # -1
    /\ term.h = 8 * gargs[3] + 4 /\ term.w = 8 * gargs[2] + 4
    /\ \E wr \in canvas : wr.kind = "file" /\ wr.y = term.h - 2
    /\ \E wr \in canvas : wr.kind = "cell" /\ wr.x + Len(wr.text) = term.w - 1

\* C9: every write of draw_piece_ascii lies inside the cell rectangle:
\* x <= x' and the last column written < x + cell_width, y <= y' < y + cell_height.
\* (Stated for the cell sizes the layout derives, 3 and more.)
C9_GlyphInsideCell ==
    (mode = "paint" /\ pc = "piece" /\ gargs[2] >= 3 /\ gargs[3] >= 3)
        => LET cw == gargs[2]
               ch == gargs[3]
               x == gargs[5]
               y == gargs[6]
           IN \A wr \in canvas :
                 /\ x <= wr.x /\ wr.x + Len(wr.text) <= x + cw
                 /\ y <= wr.y /\ wr.y < y + ch

\* C10: with no override for an axis, the cell size of every frame is
\* max(3, (dimension - 4) div 8) of the terminal size at that frame.  (The
\* terminal size changes only inside getstr/getch, so where a frame has just
\* been painted term is still the size it was painted at.)
C10_GeometryPerFrame ==
    (mode \in {"standard", "puzzle"} /\ nframes > 0 /\ exc = "none"
        /\ (pc = "getstr" \/ st \in {"nofit", "solved"}))
        => /\ override.w = None => cell_width = Some(Max(3, (term.w - 4) \div 8))
           /\ override.h = None => cell_height = Some(Max(3, (term.h - 4) \div 8))

\* C11: every fatal end of a session inside a loop (the mismatch of the
\* puzzle loop, the does-not-fit exit of either loop) shows its final
\* message and then waits for an acknowledgment keypress; from there the
\* only step is that one keypress, after which the loop has returned.
C11_FatalEndAcknowledged ==
    /\ [][(mode \in {"standard", "puzzle"} /\ st = "running" /\ st' \in {"failed", "nofit"})
          => /\ screen'.texts # <<>>
             /\ Last(screen'.texts).msg \in {"incorrect", "toosmall"}
             /\ pc' = "getch"]_vars
    /\ [][(mode \in {"standard", "puzzle"} /\ st \in {"failed", "nofit"})
          => /\ pc = "getch" /\ pc' = "done"
             /\ nkeys' = nkeys + 1 /\ st' = st]_vars

\* C12: when the free-play loop is at its game-over exit (waiting for the
\* acknowledgment keypress or returned after it), the game-over status is
\* the last text on the screen and the board frame on the screen depicts the
\* board as it is, that is after the last applied move.
C12_GameOverShowsFinalPosition ==
    (InFreePlay /\ st = "gameover")
        => /\ pc \in {"getch", "done"}
           /\ screen.texts # <<>> /\ Last(screen.texts).msg = "gameover"
           /\ screen.frame # None
           /\ Val(screen.frame).pieces = board.pieces

\* C14: for every solution length (0 included) and every combination of set
\* and unset overrides, once the cursor equals the length and the loop has
\* left its loop condition, the loop is Solved with no exception, its cell
\* geometry is defined on both axes, the success message is the last text
\* on the screen and the loop waits for, or has consumed, one keypress.
C14_SolvedForEveryLength ==
    (InPuzzle /\ pc # "top" /\ solution_index = Len(puzzle_solution))
        => /\ st = "solved" /\ exc = "none"
           /\ cell_width # None /\ cell_height # None
           /\ screen.texts # <<>> /\ Last(screen.texts).msg = "solved"
           /\ pc \in {"getch", "done"}

\* C15: whenever a frame fitted and the loop is waiting for the input line,
\* prompt_y = 8*cell_height + 4 and the rows prompt_y, prompt_y + 1 and
\* prompt_y + 2 are below the terminal height; and before any line has been
\* read (so before any resize) no write of a loop has raised curses.error.
C15_RowsInsideWindow ==
    mode \in {"standard", "puzzle"}
        => /\ pc = "getstr" =>
                /\ prompt_y = 8 * Val(cell_height) + 4
                /\ prompt_y + 2 < term.h
           /\ nlines = 0 => exc # "curses.error"

\* C16: on a solution whose plies are each moved by the side to move, the
\* puzzle loop decides at most len(solution) plies, each decided ply but
\* the current one has advanced the cursor by one, and once the loop has
\* returned it has ended as Solved, Failed or by the does-not-fit exit.
C16_PuzzleTerminates ==
    (InPuzzle /\ EachPlyBySideToMove(start, puzzle_solution))
        => /\ Len(plies) <= Len(puzzle_solution)
           /\ solution_index <= Len(plies) /\ Len(plies) <= solution_index + 1
           /\ pc = "done" => st \in {"solved", "failed", "nofit"}

\* the line equals the text when case is ignored and blanks around the line
\* are ignored
SameIgnoringCaseAndBlanks(line, text) ==
    \E i \in 0..Len(line) :
        /\ i + Len(text) <= Len(line)
        /\ \A k \in 1..i : line[k] = " "
        /\ \A k \in (i + Len(text) + 1)..Len(line) : line[k] = " "
        /\ \A k \in 1..Len(text) : LowerChar(line[i + k]) = LowerChar(text[k])

\* C17: a line read at the puzzle prompt is accepted (the cursor advances or
\* the engine's push is entered) if and only if it equals the scripted text
\* of the current ply with case and surrounding blanks ignored; an accepted
\* line applies the scripted move itself, a rejected one applies nothing.
C17_AcceptanceRule ==
    [][(InPuzzle /\ pc = "getstr" /\ nlines' = nlines + 1)
          => LET text == puzzle_solution[solution_index + 1]
             IN IF SameIgnoringCaseAndBlanks(move_str', text)
                THEN /\ st' # "failed"
                     /\ exc' = "none" =>
                            /\ solution_index' = solution_index + 1
                            /\ applied' = Append(applied, FromUci(text))
                            /\ board' \in {o.board : o \in PushOutcomes(board, FromUci(text))}
                ELSE /\ solution_index' = solution_index
                     /\ applied' = applied /\ board' = board
                     /\ st' \in {"failed", "crash"}]_vars

C17_Witness ==
    /\ InPuzzle /\ solution_index = 2 /\ nlines = 2 /\ pc = "top"
    /\ move_str = <<" ">> \o D8D7 \o <<" ">>
    /\ applied = <<FromUci(D1A4), FromUci(D8D7)>>
    /\ board.pieces[FromUci(D8D7).to_square] = "q"

\* C13: draw_board_common called with the same board, the same cell sizes
\* and the same terminal size as a first call, after another frame or a
\* message of the loop was put on the screen in between, leaves the screen
\* exactly as the first call left it.
C13_RenderIdempotent ==
    (mode = "paint" /\ pc = "again") => canvas = first

C13_Witness ==
    /\ mode = "paint" /\ pc = "again" /\ gargs[4] = "text" /\ prompt_y > 0
    /\ canvas = first
    /\ \E wr \in canvas : wr.kind = "piece"
    /\ \A wr \in canvas : wr.kind # "msg"

\* the cell of the square of file f (0..7) and rank r (1..8)
SquareX(f, cw) == f * cw + 3
SquareY(r, ch) == (8 - r) * ch + 1
SquareBg(f, r) == IF ((8 - r) + f) % 2 = 0 THEN 2 ELSE 1

\* C18: in a frame that fits, the cell of the square of file f and rank r
\* is filled from x = f*cell_width + 3, y = (8 - r)*cell_height + 1 with the
\* style chosen by (row + col) mod 2, the piece standing on that square is
\* drawn by draw_piece_ascii for that origin and style, and the 64 cells
\* cover 64*cell_width*cell_height distinct positions (no two overlap).
C18_SquareMapping ==
    (mode = "paint" /\ pc = "board" /\ prompt_y # -1)
        => LET cw == gargs[2]
               ch == gargs[3]
               cells == {wr \in canvas : wr.kind = "cell"}
               glyphs == {wr \in canvas : wr.kind = "piece"}
               covered == UNION {{<<wr.y, wr.x + i>> : i \in 0..(Len(wr.text) - 1)} : wr \in cells}
           IN /\ cells = {Write("cell", SquareY(r, ch) + k, SquareX(f, cw), Chars(cw, " "),
                                SquareBg(f, r)) : f \in 0..7, r \in 1..8, k \in 0..(ch - 1)}
              /\ glyphs = UNION {DrawPieceAscii(board.pieces[(r - 1) * 8 + f], SquareX(f, cw),
                                                SquareY(r, ch), cw, ch, SquareBg(f, r)) :
                                    f \in 0..7, r \in 1..8}
              /\ Cardinality(covered) = 64 * cw * ch

C18_Witness ==
    /\ mode = "paint" /\ pc = "board" /\ prompt_y # -1 /\ gargs[2] = 3 /\ gargs[3] = 3
    /\ Write("piece", 1, 12, <<" ", "q", " ">>, 1) \in canvas
    /\ Write("piece", 22, 12, <<" ", "Q", " ">>, 2) \in canvas
    /\ Write("piece", 21, 3, <<"/", "_", "\\">>, 2) \in canvas

\* one axis of the layout: override o, terminal dimension dim, cell size used
AxisLaidOut(o, dim, cell) ==
    /\ cell # None
    /\ o # None => cell = o
    /\ o = None =>
          LET c == Val(cell)
          IN /\ c >= 3
             /\ dim >= 28 => (8 * c + 4 <= dim /\ dim < 8 * (c + 1) + 4)
             /\ dim < 28 => c = 3
             /\ (8 * c + 4 <= dim) <=> (dim >= 28)

\* C19: on the first frame each axis uses its override verbatim (values
\* below 3 included); without an override the cell size is
\* max(3, (dimension - 4) div 8): the largest c with 8*c + 4 <= dimension
\* when the dimension is 28 or more and 3 below that, so it is always >= 3
\* and fits exactly when the dimension is 28 or more; the fit check of the
\* frame accepts exactly when both axes fit.
C19_FirstFrameLayout ==
    (mode = "paint" /\ pc = "layout")
        => /\ AxisLaidOut(override.w, term.w, cell_width)
           /\ AxisLaidOut(override.h, term.h, cell_height)
           /\ (prompt_y # -1) <=> (8 * Val(cell_width) + 4 <= term.w
                                    /\ 8 * Val(cell_height) + 4 <= term.h)

C19_Witness ==
    /\ mode = "paint" /\ pc = "layout"
    /\ override = [w |-> Some(1), h |-> None]
    /\ term = [h |-> 37, w |-> 26]
    /\ cell_width = Some(1) /\ cell_height = Some(4)
    /\ prompt_y = 36

====
